---- MODULE Spec2Model ----
(***************************************************************************)
(* A state-machine model of the frame-extension engine of the vertical     *)
(* video enhancer: backend/ai_extender.py (AIImageExtender) and            *)
(* backend/video_processing.py (VideoProcessor).                           *)
(*                                                                         *)
(* An image is a record [w, rows]: its width and, per pixel row, the grey  *)
(* value of that row (the modelled frames are uniform along a row and      *)
(* across the three channels).  The height of an image is Len(rows).       *)
(***************************************************************************)
EXTENDS Integers, Sequences, FiniteSets, TLC

VARIABLES
    api_token,          \* AIImageExtender.api_token is set (truthy)
    generator,          \* "source": _stable_diffusion_outpaint as written;
                        \* "stub": the method replaced by a counting stub
    extension_cache,    \* AIImageExtender.extension_cache: insertion-ordered
                        \* sequence of [key, val]
    cache_hits,         \* AIImageExtender.cache_hits
    cache_misses,       \* AIImageExtender.cache_misses
    gen_calls,          \* per cache key, the number of requests that ran a
                        \* generator (the stub's call counter)
    last,               \* the last call made to the extender and its outcome
    video,              \* the frame source: [W, H, n]
    mode,               \* "none" | "uniform" | "keyframes"
    param,              \* sample_rate (uniform) or keyframe_interval
    pc,                 \* position in process_video / process_video_keyframes
    cap,                \* cv2.VideoCapture: "absent" | "failed" | "released"
    frame_idx,          \* loop index of the current pass
    processed_frames,   \* process_video: contents of the saved frame files
    keyframes,          \* process_video_keyframes: dict index -> frame
    writer,             \* cv2.VideoWriter: [status, w, h, frames], status
                        \* "absent" | "open" | "failed" | "released"
    result              \* what the run returned or raised

vars == <<api_token, generator, extension_cache, cache_hits, cache_misses,
          gen_calls, last, video, mode, param, pc, cap, frame_idx,
          processed_frames, keyframes, writer, result>>

extenderVars == <<extension_cache, cache_hits, cache_misses, gen_calls>>
runVars == <<video, mode, param, pc, cap, frame_idx, processed_frames,
             keyframes, writer, result>>

-----------------------------------------------------------------------------
(* Bounds of the model *)

\* widths and heights of the frames handed to the extender directly
MaxGeomW == 10
MaxGeomH == 20
\* extension heights requested from the fallback generator directly
MaxExt == 6
\* widths, heights and lengths of the videos that are run
MaxVideoW == 5
MaxVideoH == 4
MaxFrames == 4
\* largest sample_rate / keyframe_interval tried (the smallest is -1)
MaxParam == 3

(* Constants of the program *)

EdgeRows == 20
CacheLimit == 50
EvictCount == 10
AspectNum == 16
AspectDen == 9

-----------------------------------------------------------------------------
(* Arithmetic and images *)

Min(a, b) == IF a <= b THEN a ELSE b
Max(a, b) == IF a >= b THEN a ELSE b

RECURSIVE SumSeq(_)
SumSeq(s) == IF s = <<>> THEN 0 ELSE Head(s) + SumSeq(Tail(s))

Reverse(s) == [r \in 1..Len(s) |-> s[Len(s) + 1 - r]]

Height(img) == Len(img.rows)

\* Image.new("RGB", (w, h), colour)
NewImage(w, h, v) == [w |-> w, rows |-> [r \in 1..h |-> v]]

NoImage == [w |-> 0, rows |-> <<>>]

\* image.crop((0, upper, width, lower)): rows upper .. lower-1
Crop(img, width, upper, lower) ==
    [w |-> width, rows |-> SubSeq(img.rows, upper + 1, lower)]

\* canvas.paste(img, (0, y)): rows y .. y+h-1 of the canvas are overwritten,
\* the part of img that falls outside the canvas is clipped
Paste(canvas, img, y) ==
    [canvas EXCEPT !.rows =
        [r \in 1..Len(canvas.rows) |->
            IF (r - 1 >= y) /\ (r - 1 < y + Height(img))
            THEN img.rows[r - y]
            ELSE canvas.rows[r]]]

\* canvas.paste(img, (0, y), mask): per row, img over the canvas with the
\* mask's opacity (0..255)
MaskedMix(src, dst, a) == (src * a + dst * (255 - a)) \div 255

PasteMasked(canvas, img, y, mask) ==
    [canvas EXCEPT !.rows =
        [r \in 1..Len(canvas.rows) |->
            IF (r - 1 >= y) /\ (r - 1 < y + Height(img))
            THEN MaskedMix(img.rows[r - y], canvas.rows[r], mask[r - y])
            ELSE canvas.rows[r]]]

-----------------------------------------------------------------------------
(* AIImageExtender: geometry *)

\* round(width * 16 / 9), to the nearest integer (no tie occurs: a
\* fractional part of one half would need 9 to divide 32 * width an odd
\* number of times)
RoundedTargetHeight(width) ==
    (2 * width * AspectNum + AspectDen) \div (2 * AspectDen)

\* int(width * 16 / 9): int() truncates, and the quotient is positive
TargetHeight(width) == (width * AspectNum) \div AspectDen

\* total_extension // 2 is Python's floor division, as \div is
TotalExtension(width, height) == TargetHeight(width) - height
\* the split with the odd row given to the top
TopExtensionRoundedUp(width, height) ==
    (TotalExtension(width, height) + 1) \div 2

TopExtension(width, height) == TotalExtension(width, height) \div 2
BottomExtension(width, height) ==
    TotalExtension(width, height) - TopExtension(width, height)

-----------------------------------------------------------------------------
(* AIImageExtender._fallback_extension *)

EdgeHeight(image, extension_height) ==
    Min(extension_height * 2, Height(image) \div 3)

\* the gradient mask: alpha = int(255 * (1 - y / edge_height)) for row y
GradientMask(edge_height) ==
    [r \in 1..edge_height |-> (255 * (edge_height - (r - 1))) \div edge_height]

\* Returns [ok, img].  With an empty edge strip (image.height < 3) the mean of
\* no pixels is NaN and int(NaN) raises ValueError; nothing in the method
\* catches it.  GaussianBlur keeps the strip's size; its smoothing of the
\* values is left out.
FallbackExtension(image, position, width, extension_height) ==
    LET edge_height == EdgeHeight(image, extension_height)
        H == Height(image)
        edge == IF position = "bottom"
                THEN Crop(image, width, H - edge_height, H)
                ELSE Crop(image, width, 0, edge_height)
        reflection == [w |-> width, rows |-> Reverse(edge.rows)]
        mask == GradientMask(edge_height)
    IN  IF edge_height = 0
        THEN [ok |-> FALSE, img |-> NoImage]
        ELSE LET avg_color == SumSeq(edge.rows) \div edge_height
                 extension == NewImage(width, extension_height, avg_color)
             IN  IF edge_height < extension_height
                 THEN [ok |-> TRUE,
                       img |-> PasteMasked(extension, reflection,
                                   (extension_height - edge_height) \div 2,
                                   mask)]
                 ELSE [ok |-> TRUE,
                       img |-> PasteMasked(extension,
                                   Crop(reflection, width, 0, extension_height),
                                   0, mask)]

-----------------------------------------------------------------------------
(* AIImageExtender._stable_diffusion_outpaint *)

\* What the hosted model answers to replicate.run: the call raises, or it
\* returns an object with a url, a non-empty list, or nothing usable.
Responses == {"error", "url", "list", "empty"}

\* The image a generator hands back, resized to (width, extension_height);
\* its content is the backend's, here white.
GeneratedImage(width, extension_height) ==
    NewImage(width, extension_height, 255)

\* Whether the name io resolves in ai_extender's globals: the module imports
\* os, replicate, numpy, PIL, cv2 and time only; the "import io" of
\* _pil_to_bytes binds a local of that method.
IoBound == FALSE

\* Returns [ok, img].  Both branches that received an image evaluate
\* io.BytesIO(...), which raises NameError unless io is bound.
StableDiffusionOutpaint(token, resp, width, extension_height) ==
    IF ~token
    THEN [ok |-> FALSE, img |-> NoImage]
    ELSE IF resp = "error"
    THEN [ok |-> FALSE, img |-> NoImage]
    ELSE IF resp \in {"url", "list"}
    THEN IF IoBound
         THEN [ok |-> TRUE, img |-> GeneratedImage(width, extension_height)]
         ELSE [ok |-> FALSE, img |-> NoImage]
    ELSE [ok |-> FALSE, img |-> NoImage]

\* The generator replaced by a stub: it returns an image of the requested
\* size or raises, as the test harness chooses.
StubOutpaint(resp, width, extension_height) ==
    IF resp \in {"url", "list"}
    THEN [ok |-> TRUE, img |-> GeneratedImage(width, extension_height)]
    ELSE [ok |-> FALSE, img |-> NoImage]

\* Whether the generator returns an image on a response, and one response
\* of each kind the generator tells apart by that: responses it treats alike
\* lead to the same state and are tried once.
GeneratorReturns(token, gen, resp) ==
    IF gen = "stub"
    THEN StubOutpaint(resp, 1, 1).ok
    ELSE StableDiffusionOutpaint(token, resp, 1, 1).ok

ResponseKinds(token, gen) ==
    {r \in Responses :
        r = CHOOSE q \in Responses :
                GeneratorReturns(token, gen, q) = GeneratorReturns(token, gen, r)}

-----------------------------------------------------------------------------
(* AIImageExtender._generate_ai_extension *)

\* np.array(edge_region).sum(): every pixel of every row, three channels
EdgeRegion(image, position, width) ==
    IF position = "bottom"
    THEN Crop(image, width, Max(0, Height(image) - EdgeRows), Height(image))
    ELSE Crop(image, width, 0, Min(EdgeRows, Height(image)))

EdgeHash(image, position, width) ==
    3 * width * SumSeq(EdgeRegion(image, position, width).rows)

\* f"{position}_{width}_{extension_height}_{edge_hash}"
CacheKey(image, position, width, extension_height) ==
    <<position, width, extension_height, EdgeHash(image, position, width)>>

NoKey == <<"none", 0, 0, 0>>

CacheKeys(cache) == {cache[k].key : k \in 1..Len(cache)}

CacheGet(cache, key) ==
    (CHOOSE e \in {cache[k] : k \in 1..Len(cache)} : e.key = key).val

\* the size limit deleting the newest keys instead
CachePutDropsNewest(cache, key, val) ==
    LET put == Append(cache, [key |-> key, val |-> val])
    IN  IF Len(put) > CacheLimit
        THEN SubSeq(put, 1, Len(put) - EvictCount)
        ELSE put

\* self.extension_cache[cache_key] = extension, then the size limit: past
\* CacheLimit entries the first EvictCount keys of the dict are deleted
CachePut(cache, key, val) ==
    LET put == Append(cache, [key |-> key, val |-> val])
    IN  IF Len(put) > CacheLimit
        THEN SubSeq(put, EvictCount + 1, Len(put))
        ELSE put

CountCall(calls, key) ==
    IF key \in DOMAIN calls
    THEN [calls EXCEPT ![key] = @ + 1]
    ELSE [k \in DOMAIN calls \cup {key} |->
             IF k = key THEN 1 ELSE calls[k]]

\* st is the extender's state [cache, hits, misses, calls]; the result is
\* [st, ok, img, key, hit].  ok = FALSE: the call raised.
GenerateAIExtension(st, token, gen, image, position, width, extension_height, resp) ==
    IF extension_height <= 0 \/ width <= 0
    THEN [st |-> st, ok |-> TRUE,
          img |-> NewImage(width, Max(1, extension_height), 0),
          key |-> NoKey, hit |-> FALSE, via |-> "degenerate"]
    ELSE
    LET cache_key == CacheKey(image, position, width, extension_height)
        fallback == FallbackExtension(image, position, width,
                                      extension_height)
        missed == [st EXCEPT !.misses = @ + 1,
                             !.calls = CountCall(@, cache_key)]
        extension == IF gen = "stub"
                     THEN StubOutpaint(resp, width, extension_height)
                     ELSE StableDiffusionOutpaint(token, resp, width,
                                                  extension_height)
    IN  IF cache_key \in CacheKeys(st.cache)
        THEN [st |-> [st EXCEPT !.hits = @ + 1], ok |-> TRUE,
              img |-> CacheGet(st.cache, cache_key),
              key |-> cache_key, hit |-> TRUE, via |-> "cache"]
        ELSE IF ~token
        \* the fallback is called inside the try; if it raises, the handler
        \* calls it again and that exception leaves the method
        THEN [st |-> missed, ok |-> fallback.ok, img |-> fallback.img,
              key |-> cache_key, hit |-> FALSE, via |-> "fallback"]
        ELSE IF extension.ok
        THEN [st |-> [missed EXCEPT !.cache =
                          CachePut(@, cache_key, extension.img)],
              ok |-> TRUE, img |-> extension.img,
              key |-> cache_key, hit |-> FALSE, via |-> "generator"]
        ELSE [st |-> missed, ok |-> fallback.ok, img |-> fallback.img,
              key |-> cache_key, hit |-> FALSE, via |-> "fallback"]

-----------------------------------------------------------------------------
(* AIImageExtender.analyze_frame_and_extend *)

\* resps: the backend's answers to the top and to the bottom request.
\* The result is [st, ok, img, top, bottom, y_offset, reqs]; reqs are the
\* outcomes of the _generate_ai_extension calls made.  A raising top request
\* leaves the method before the bottom one is made.
AnalyzeFrameAndExtend(st, token, gen, image, resps) ==
    LET width == image.w
        height == Height(image)
        target_width == width
        target_height == TargetHeight(width)
        top_extension == TopExtension(width, height)
        bottom_extension == BottomExtension(width, height)
        canvas == NewImage(target_width, target_height, 0)
        y_offset == top_extension
        centred == Paste(canvas, image, y_offset)
        top == GenerateAIExtension(st, token, gen, image, "top",
                                   target_width, top_extension, resps[1])
        with_top == Paste(centred, top.img, 0)
        bottom == GenerateAIExtension(top.st, token, gen, image, "bottom",
                                      target_width, bottom_extension,
                                      resps[2])
        with_bottom == Paste(with_top, bottom.img, y_offset + height)
        geometry == [top |-> top_extension, bottom |-> bottom_extension,
                     y_offset |-> y_offset]
    IN  IF ~top.ok
        THEN [st |-> top.st, ok |-> FALSE, img |-> NoImage,
              geometry |-> geometry, reqs |-> <<top>>]
        ELSE IF ~bottom.ok
        THEN [st |-> bottom.st, ok |-> FALSE, img |-> NoImage,
              geometry |-> geometry, reqs |-> <<top, bottom>>]
        ELSE [st |-> bottom.st, ok |-> TRUE, img |-> with_bottom,
              geometry |-> geometry, reqs |-> <<top, bottom>>]

-----------------------------------------------------------------------------
(* The frame source and the extender object *)

Positions == {"top", "bottom"}

\* Row r of frame i of a video: a grey ramp that differs from frame to frame
Pixel(i, r) == (5 * i + r) % 256

\* cap.read() followed by cvtColor(BGR2RGB) and Image.fromarray: frame i of
\* the source as a PIL image (the channel swap is invisible on grey frames)
SourceFrame(v, i) == [w |-> v.W, rows |-> [r \in 1..v.H |-> Pixel(i, r)]]

NoCalls == [k \in {} |-> 0]
NoCall == [op |-> "none"]

\* AIImageExtender.__init__
NewExtender ==
    [cache |-> <<>>, hits |-> 0, misses |-> 0, calls |-> NoCalls]

ExtenderState ==
    [cache |-> extension_cache, hits |-> cache_hits,
     misses |-> cache_misses, calls |-> gen_calls]

SetExtender(st) ==
    /\ extension_cache' = st.cache
    /\ cache_hits' = st.hits
    /\ cache_misses' = st.misses
    /\ gen_calls' = st.calls

Outcome(q) ==
    [key |-> q.key, hit |-> q.hit, ok |-> q.ok, via |-> q.via, img |-> q.img]

AnalyzeCall(frame, out) ==
    [op |-> "analyze", frame |-> frame, ok |-> out.ok, img |-> out.img,
     geometry |-> out.geometry,
     reqs |-> [k \in 1..Len(out.reqs) |-> Outcome(out.reqs[k])]]

InitExtender ==
    /\ extension_cache = <<>>
    /\ cache_hits = 0
    /\ cache_misses = 0
    /\ gen_calls = NoCalls
    /\ last = NoCall

NoWriter == [status |-> "absent", w |-> 0, h |-> 0, frames |-> <<>>]

InitNoRun ==
    /\ mode = "none"
    /\ param = 1
    /\ frame_idx = 0
    /\ processed_frames = <<>>
    /\ keyframes = <<>>
    /\ cap = "absent"
    /\ writer = NoWriter
    /\ result = [ret |-> "none", why |-> "", reencoded |-> FALSE]

-----------------------------------------------------------------------------
(* The extender called on single frames *)

InitExtend ==
    /\ InitExtender
    /\ InitNoRun
    /\ pc = "unit"
    /\ generator = "source"
    /\ api_token \in BOOLEAN
    /\ video \in [W : 1..MaxGeomW, H : 1..MaxGeomH, n : {1}]

\* analyze_frame_and_extend(frame) on a fresh extender
ExtendFrame ==
    /\ pc = "unit"
    /\ last.op = "none"
    /\ \E resps \in ResponseKinds(api_token, generator) \X ResponseKinds(api_token, generator) :
         LET frame == SourceFrame(video, 0)
             out == AnalyzeFrameAndExtend(ExtenderState, api_token, generator,
                                          frame, resps)
         IN  /\ SetExtender(out.st)
             /\ last' = AnalyzeCall(frame, out)
    /\ UNCHANGED <<api_token, generator, runVars>>

\* _fallback_extension(frame, position, frame.width, h) with h > 0
CallFallback ==
    /\ pc = "unit"
    /\ last.op = "none"
    /\ \E position \in Positions, h \in 1..MaxExt :
         LET frame == SourceFrame(video, 0)
             fb == FallbackExtension(frame, position, frame.w, h)
         IN  last' = [op |-> "fallback", frame |-> frame,
                      position |-> position, h |-> h,
                      edge_height |-> EdgeHeight(frame, h),
                      ok |-> fb.ok, img |-> fb.img]
    /\ UNCHANGED <<api_token, generator, extenderVars, runVars>>

NextExtend == ExtendFrame \/ CallFallback

SpecExtend == InitExtend /\ [][NextExtend]_vars

-----------------------------------------------------------------------------
(* _generate_ai_extension called request after request on one extender *)

\* distinct cache keys requested at most
MaxKeys == 52
\* requests that repeat an earlier key, and the oldest keys they may repeat;
\* a repeat comes right after those keys or once the cache is about to fill
MaxRepeats == 2
RepeatKeys == 2
\* leading misses whose generator outcome is arbitrary; later ones succeed
MaxFlaky == 2

InitCache ==
    /\ InitExtender
    /\ InitNoRun
    /\ pc = "cache"
    /\ generator \in {"source", "stub"}
    /\ api_token \in BOOLEAN
    /\ video = [W |-> 4, H |-> 3, n |-> 0]

\* The j-th distinct request, in the order analyze_frame_and_extend makes
\* them over a sequence of different frames: top then bottom of each frame.
RequestFrame(j) == SourceFrame(video, j \div 2)
RequestPosition(j) == IF j % 2 = 0 THEN "top" ELSE "bottom"
RequestHeight(j) ==
    IF j % 2 = 0 THEN TopExtension(video.W, video.H)
    ELSE BottomExtension(video.W, video.H)

KeysIssued == Cardinality(DOMAIN gen_calls)

RequestExtension ==
    /\ pc = "cache"
    /\ \E j \in 0..KeysIssued :
         /\ IF j = KeysIssued
            THEN KeysIssued < MaxKeys
            ELSE /\ j < RepeatKeys
                 /\ cache_hits + cache_misses - KeysIssued < MaxRepeats
                 /\ \/ KeysIssued <= RepeatKeys
                    \/ Len(extension_cache) >= CacheLimit - 1
                    \/ KeysIssued > CacheLimit
         /\ \E resp \in IF cache_misses < MaxFlaky
                        THEN ResponseKinds(api_token, generator)
                        ELSE {"url"} :
              LET q == GenerateAIExtension(ExtenderState, api_token,
                           generator, RequestFrame(j), RequestPosition(j),
                           video.W, RequestHeight(j), resp)
              IN  /\ SetExtender(q.st)
                  /\ last' = [op |-> "generate", key |-> q.key,
                               hit |-> q.hit, ok |-> q.ok, via |-> q.via]
    /\ UNCHANGED <<api_token, generator, runVars>>

NextCache == RequestExtension

SpecCache == InitCache /\ [][NextCache]_vars

-----------------------------------------------------------------------------
(* VideoProcessor: helpers *)

Abs(a) == IF a >= 0 THEN a ELSE -a

\* a // b for b # 0 (Python floors towards minus infinity)
PyFloorDiv(a, b) == IF b > 0 THEN a \div b ELSE (-a) \div (-b)

\* a % b == 0 for b # 0
PyDivides(a, b) == a % Abs(b) = 0

\* extended_frame.save("frame_%06d.jpg"): the file holds the frame as JPEG
SaveFrame(img) == [format |-> "jpeg", image |-> img]

\* cv2.imread of a saved frame: the frame's size and, up to the loss of the
\* format it went through, its pixels
ImRead(file) ==
    [w |-> file.image.w, rows |-> file.image.rows, decoded |-> file.format]

\* cv2.resize(img, (width, height)), by the nearest source row
Resize(img, width, height) ==
    [img EXCEPT !.w = width,
                !.rows = [r \in 1..height |->
                             img.rows[((r - 1) * Height(img)) \div height + 1]]]

\* cvRound of a / d for d > 0: to the nearest integer, ties to even
RoundHalfEven(a, d) ==
    LET q == a \div d
        r == a % d
    IN  IF 2 * r < d THEN q
        ELSE IF 2 * r > d THEN q + 1
        ELSE q + (q % 2)

\* the blend returning its first frame
AddWeightedFirstOnly(prev, next, num, den) == prev

\* the blend with its two weights exchanged
AddWeightedSwapped(prev, next, num, den) ==
    [prev EXCEPT !.rows =
        [r \in 1..Len(prev.rows) |->
            (prev.rows[r] * num + next.rows[r] * (den - num)) \div den]]

\* cv2.addWeighted(prev, 1 - t, next, t, 0) with t = num / den, per pixel
\* saturate(round(prev * (1 - t) + next * t))
AddWeighted(prev, next, num, den) ==
    [prev EXCEPT !.rows =
        [r \in 1..Len(prev.rows) |->
            Min(255, Max(0, RoundHalfEven(prev.rows[r] * (den - num)
                                          + next.rows[r] * num, den)))]]

\* video_writer.write(frame): ignored by a writer that failed to open
WriterWrite(w, frame) ==
    IF w.status = "open" THEN [w EXCEPT !.frames = Append(@, frame)] ELSE w

\* cv2.VideoWriter(output_path, fourcc, fps, (width, height))
NewWriter(opens, width, height) ==
    [status |-> IF opens THEN "open" ELSE "failed",
     w |-> width, h |-> height, frames |-> <<>>]

\* video_writer.release()
Release(w) == [w EXCEPT !.status = IF @ = "open" THEN "released" ELSE @]

Raise(why) == [ret |-> "raise", why |-> why, reencoded |-> FALSE]
Return(reencoded) ==
    [ret |-> "output_path", why |-> "", reencoded |-> reencoded]
Running == [ret |-> "none", why |-> "", reencoded |-> FALSE]

-----------------------------------------------------------------------------
(* VideoProcessor.process_video and _frames_to_video *)

\* processed_frames[0]
FirstProcessed(frames) == frames[1]

\* processed_frames[-1]
LastProcessed(frames) == frames[Len(frames)]

\* cv2.VideoCapture, the isOpened check, and the loop that reads every frame
StartUniform ==
    /\ mode = "uniform"
    /\ pc = "start"
    /\ \E source_opens \in BOOLEAN :
         IF source_opens
         THEN /\ cap' = "released"
              /\ pc' = "frames"
              /\ result' = result
         ELSE /\ cap' = "failed"
              /\ pc' = "done"
              /\ result' = Raise("source")
    /\ UNCHANGED <<api_token, generator, extenderVars, last, video, mode,
                   param, frame_idx, processed_frames, keyframes, writer>>

\* one iteration of "for frame_idx, frame in enumerate(original_frames)"
UniformFrame ==
    /\ mode = "uniform"
    /\ pc = "frames"
    /\ frame_idx < video.n
    /\ IF param = 0
       THEN \* frame_idx % sample_rate raises ZeroDivisionError
            /\ pc' = "done"
            /\ result' = Raise("ZeroDivisionError")
            /\ UNCHANGED <<extenderVars, last, frame_idx, processed_frames>>
       ELSE IF PyDivides(frame_idx, param)
       THEN \E resps \in ResponseKinds(api_token, generator) \X ResponseKinds(api_token, generator) :
              LET frame == SourceFrame(video, frame_idx)
                  out == AnalyzeFrameAndExtend(ExtenderState, api_token,
                                               generator, frame, resps)
              IN  /\ SetExtender(out.st)
                  /\ last' = AnalyzeCall(frame, out)
                  /\ IF out.ok
                     THEN /\ processed_frames' =
                                Append(processed_frames, SaveFrame(out.img))
                          /\ frame_idx' = frame_idx + 1
                          /\ UNCHANGED <<pc, result>>
                     ELSE /\ pc' = "done"
                          /\ result' = Raise("extend")
                          /\ UNCHANGED <<frame_idx, processed_frames>>
       ELSE /\ processed_frames' =
                  IF processed_frames # <<>>
                  THEN Append(processed_frames,
                              LastProcessed(processed_frames))
                  ELSE processed_frames
            /\ frame_idx' = frame_idx + 1
            /\ UNCHANGED <<extenderVars, last, pc, result>>
    /\ UNCHANGED <<api_token, generator, video, mode, param, cap, keyframes,
                   writer>>

\* _frames_to_video: cv2.VideoWriter and the isOpened check
FramesToVideoOpen ==
    /\ mode = "uniform"
    /\ pc = "frames"
    /\ frame_idx = video.n
    /\ \E sink_opens \in BOOLEAN :
         /\ writer' = NewWriter(sink_opens, video.W, TargetHeight(video.W))
         /\ IF sink_opens
            THEN /\ pc' = "write"
                 /\ frame_idx' = 0
                 /\ result' = result
            ELSE /\ pc' = "done"
                 /\ result' = Raise("writer")
                 /\ frame_idx' = frame_idx
    /\ UNCHANGED <<api_token, generator, extenderVars, last, video, mode,
                   param, cap, processed_frames, keyframes>>

\* one iteration of "for frame_path in frame_paths"; the files are those the
\* run has just written, so imread returns them
FramesToVideoWrite ==
    /\ mode = "uniform"
    /\ pc = "write"
    /\ frame_idx < Len(processed_frames)
    /\ LET img == ImRead(processed_frames[frame_idx + 1])
           fit == IF <<Height(img), img.w>> # <<writer.h, writer.w>>
                  THEN Resize(img, writer.w, writer.h)
                  ELSE img
       IN  writer' = WriterWrite(writer, fit)
    /\ frame_idx' = frame_idx + 1
    /\ UNCHANGED <<api_token, generator, extenderVars, last, video, mode,
                   param, pc, cap, processed_frames, keyframes, result>>

\* video_writer.release(), the ffmpeg conversion (its failure is printed
\* only) and process_video's return of output_path
FramesToVideoFinish ==
    /\ mode = "uniform"
    /\ pc = "write"
    /\ frame_idx = Len(processed_frames)
    /\ \E ffmpeg_ok \in BOOLEAN : result' = Return(ffmpeg_ok)
    /\ writer' = Release(writer)
    /\ pc' = "done"
    /\ UNCHANGED <<api_token, generator, extenderVars, last, video, mode,
                   param, cap, frame_idx, processed_frames, keyframes>>

-----------------------------------------------------------------------------
(* VideoProcessor.process_video_keyframes *)

\* the first pass stopping one interval short of the end
InFirstPassStopsShort(idx) == param > 0 /\ idx + param < video.n

\* the indices range(0, total_frames, keyframe_interval) still has to yield
InFirstPass(idx) == param > 0 /\ idx < video.n

\* cv2.VideoCapture and its isOpened check, cv2.VideoWriter (never checked),
\* and the loop that reads every frame
StartKeyframes ==
    /\ mode = "keyframes"
    /\ pc = "start"
    /\ \E source_opens \in BOOLEAN, sink_opens \in BOOLEAN :
         IF source_opens
         THEN /\ cap' = "released"
              /\ writer' = NewWriter(sink_opens, video.W,
                                     TargetHeight(video.W))
              /\ pc' = "pass1"
              /\ result' = result
         ELSE /\ cap' = "failed"
              /\ pc' = "done"
              /\ result' = Raise("source")
              /\ writer' = writer
    /\ UNCHANGED <<api_token, generator, extenderVars, last, video, mode,
                   param, frame_idx, processed_frames, keyframes>>

\* one iteration of the first pass; range() itself raises ValueError for a
\* zero step
ProcessKeyframe ==
    /\ mode = "keyframes"
    /\ pc = "pass1"
    /\ param = 0 \/ InFirstPass(frame_idx)
    /\ IF param = 0
       THEN /\ pc' = "done"
            /\ result' = Raise("ValueError")
            /\ UNCHANGED <<extenderVars, last, frame_idx, keyframes>>
       ELSE \E resps \in ResponseKinds(api_token, generator) \X ResponseKinds(api_token, generator) :
              LET frame == SourceFrame(video, frame_idx)
                  out == AnalyzeFrameAndExtend(ExtenderState, api_token,
                                               generator, frame, resps)
              IN  /\ SetExtender(out.st)
                  /\ last' = AnalyzeCall(frame, out)
                  /\ IF out.ok
                     THEN /\ keyframes' =
                                [k \in DOMAIN keyframes \cup {frame_idx} |->
                                    IF k = frame_idx THEN out.img
                                    ELSE keyframes[k]]
                          /\ frame_idx' = frame_idx + param
                          /\ UNCHANGED <<pc, result>>
                     ELSE /\ pc' = "done"
                          /\ result' = Raise("extend")
                          /\ UNCHANGED <<frame_idx, keyframes>>
    /\ UNCHANGED <<api_token, generator, video, mode, param, cap,
                   processed_frames, writer>>

\* the first pass is exhausted: the second pass starts at frame 0
EndFirstPass ==
    /\ mode = "keyframes"
    /\ pc = "pass1"
    /\ param # 0
    /\ ~InFirstPass(frame_idx)
    /\ pc' = "pass2"
    /\ frame_idx' = 0
    /\ UNCHANGED <<api_token, generator, extenderVars, last, video, mode,
                   param, cap, processed_frames, keyframes, writer, result>>

\* one iteration of the second pass
WriteFrame ==
    /\ mode = "keyframes"
    /\ pc = "pass2"
    /\ frame_idx < video.n
    /\ LET prev_keyframe_idx == PyFloorDiv(frame_idx, param) * param
           stepped == prev_keyframe_idx + param
           next_keyframe_idx == IF stepped >= video.n
                                THEN prev_keyframe_idx ELSE stepped
           nearest_keyframe == IF prev_keyframe_idx \in DOMAIN keyframes
                               THEN prev_keyframe_idx ELSE next_keyframe_idx
       IN  IF frame_idx \in DOMAIN keyframes
           THEN /\ writer' = WriterWrite(writer, keyframes[frame_idx])
                /\ frame_idx' = frame_idx + 1
                /\ UNCHANGED <<pc, result>>
           ELSE IF /\ prev_keyframe_idx \in DOMAIN keyframes
                   /\ next_keyframe_idx \in DOMAIN keyframes
           THEN /\ writer' =
                      WriterWrite(writer,
                          IF next_keyframe_idx > prev_keyframe_idx
                          THEN AddWeighted(keyframes[prev_keyframe_idx],
                                   keyframes[next_keyframe_idx],
                                   frame_idx - prev_keyframe_idx,
                                   next_keyframe_idx - prev_keyframe_idx)
                          ELSE AddWeighted(keyframes[prev_keyframe_idx],
                                   keyframes[next_keyframe_idx], 0, 1))
                /\ frame_idx' = frame_idx + 1
                /\ UNCHANGED <<pc, result>>
           ELSE IF nearest_keyframe \in DOMAIN keyframes
           THEN /\ writer' = WriterWrite(writer, keyframes[nearest_keyframe])
                /\ frame_idx' = frame_idx + 1
                /\ UNCHANGED <<pc, result>>
           ELSE \* keyframes[nearest_keyframe] raises KeyError
                /\ pc' = "done"
                /\ result' = Raise("KeyError")
                /\ UNCHANGED <<writer, frame_idx>>
    /\ UNCHANGED <<api_token, generator, extenderVars, last, video, mode,
                   param, cap, processed_frames, keyframes>>

\* video_writer.release(), the ffmpeg conversion (its failure is printed
\* only) and the return of output_path
FinishKeyframes ==
    /\ mode = "keyframes"
    /\ pc = "pass2"
    /\ frame_idx = video.n
    /\ \E ffmpeg_ok \in BOOLEAN : result' = Return(ffmpeg_ok)
    /\ writer' = Release(writer)
    /\ pc' = "done"
    /\ UNCHANGED <<api_token, generator, extenderVars, last, video, mode,
                   param, cap, frame_idx, processed_frames, keyframes>>

-----------------------------------------------------------------------------
(* A run of the program on one video *)

\* The videos run: every small video in either mode with every small
\* sample_rate / keyframe_interval, and a 50-frame video at interval 24.
Init ==
    /\ InitExtender
    /\ pc = "start"
    /\ generator = "source"
    /\ api_token \in BOOLEAN
    /\ frame_idx = 0
    /\ processed_frames = <<>>
    /\ keyframes = <<>>
    /\ cap = "absent"
    /\ writer = NoWriter
    /\ result = Running
    /\ \/ /\ video \in [W : 1..MaxVideoW, H : 1..MaxVideoH, n : 0..MaxFrames]
          /\ mode \in {"uniform", "keyframes"}
          /\ param \in (-1)..MaxParam
       \/ /\ video = [W |-> 4, H |-> 3, n |-> 50]
          /\ mode = "keyframes"
          /\ param = 24

Next ==
    \/ StartUniform
    \/ UniformFrame
    \/ FramesToVideoOpen
    \/ FramesToVideoWrite
    \/ FramesToVideoFinish
    \/ StartKeyframes
    \/ ProcessKeyframe
    \/ EndFirstPass
    \/ WriteFrame
    \/ FinishKeyframes

Spec == Init /\ [][Next]_vars

-----------------------------------------------------------------------------
(* Properties *)

\* What the frames written so far have in common with a size
AllFramesSized(width, height) ==
    \A k \in 1..Len(writer.frames) :
        /\ writer.frames[k].w = width
        /\ Height(writer.frames[k]) = height

\* C1 as stated: every frame analyze_frame_and_extend returns is W wide and
\* round(W * 16 / 9) high, both modes open the sink with those dimensions,
\* and every frame written has them.
C1_OutputSizeRounded ==
    /\ (last.op = "analyze" /\ last.ok) =>
           /\ last.img.w = video.W
           /\ Height(last.img) = RoundedTargetHeight(video.W)
    /\ writer.status # "absent" =>
           /\ writer.w = video.W
           /\ writer.h = RoundedTargetHeight(video.W)
    /\ AllFramesSized(video.W, RoundedTargetHeight(video.W))

\* C1 amended: every frame analyze_frame_and_extend returns is W wide and
\* floor(W * 16 / 9) high (int() truncates), both modes open the sink with
\* exactly W x floor(W * 16 / 9), and every frame written has that size.
C1_OutputSizeTruncated ==
    /\ (last.op = "analyze" /\ last.ok) =>
           /\ last.img.w = video.W
           /\ Height(last.img) = (video.W * 16) \div 9
    /\ writer.status # "absent" =>
           /\ writer.w = video.W
           /\ writer.h = (video.W * 16) \div 9
    /\ AllFramesSized(video.W, (video.W * 16) \div 9)

\* a finished run that wrote several frames of a width whose 16/9 multiple
\* rounds up
C1_Witness ==
    /\ pc = "done"
    /\ result.ret = "output_path"
    /\ Len(writer.frames) >= 2
    /\ (video.W * 16) % 9 >= 5

\* C2: for a W x H frame with total = targetHeight - H, the extension heights
\* analyze_frame_and_extend computes satisfy top + bottom = total,
\* top = floor(total / 2), bottom - top is 0 or 1 (the odd row goes to the
\* bottom), and the source frame is pasted at row offset top.
C2_ExtensionSplit ==
    last.op = "analyze" =>
        LET H == Height(last.frame)
            total == (last.frame.w * 16) \div 9 - H
            top == last.geometry.top
            bottom == last.geometry.bottom
        IN  /\ top + bottom = total
            /\ 2 * top <= total
            /\ total <= 2 * top + 1
            /\ bottom - top \in {0, 1}
            /\ last.geometry.y_offset = top
            /\ (last.ok /\ top > 0) =>
                   \A r \in 1..H : last.img.rows[top + r] = last.frame.rows[r]

\* a frame extended by an odd number of rows, and a frame taller than its
\* target, both come up; this is the first
C2_Witness ==
    /\ last.op = "analyze"
    /\ last.ok
    /\ last.geometry.top > 0
    /\ last.geometry.bottom = last.geometry.top + 1

\* C3 as stated: a run on a video of n frames that returns its output path
\* has written n frames to the sink, in uniform-sampling mode with any
\* sample_rate >= 1 and in keyframe mode with any keyframe_interval >= 1.
C3_FrameCount ==
    (pc = "done" /\ result.ret = "output_path" /\ param >= 1) =>
        Len(writer.frames) = video.n

\* C4 as stated: no cache key has a generator (hosted or fallback) run for it
\* by more than one request; after the first miss the result is stored and
\* later requests with that key are hits.  Stated of the extender as written
\* (no stub).
C4_CacheIdempotence ==
    generator = "source" =>
        \A key \in DOMAIN gen_calls : gen_calls[key] <= 1

KeySeq(cache) == [k \in 1..Len(cache) |-> cache[k].key]

\* C5, one request: a hit leaves the cache as it is; an insertion appends the
\* new key, and the insertion that makes the count 51 deletes exactly the 10
\* keys inserted first, leaving 41.
C5_Step ==
    LET inserted == CacheKeys(extension_cache') \ CacheKeys(extension_cache)
        appended == Append(KeySeq(extension_cache), last'.key)
    IN  /\ last'.hit => extension_cache' = extension_cache
        /\ inserted = {} => extension_cache' = extension_cache
        /\ inserted # {} =>
               /\ inserted = {last'.key}
               /\ IF Len(extension_cache) = 50
                  THEN /\ Len(extension_cache') = 41
                       /\ KeySeq(extension_cache') = SubSeq(appended, 11, 51)
                  ELSE KeySeq(extension_cache') = appended

C6_BackendFailureAbsorbed ==
    (cap # "failed" /\ writer.status # "failed" /\ param >= 1) =>
        /\ last.op = "analyze" =>
               /\ last.ok
               /\ \A k \in 1..Len(last.reqs) :
                      /\ last.reqs[k].ok
                      /\ last.reqs[k].via \in {"fallback", "degenerate"}
        /\ pc = "done" =>
               /\ result.ret = "output_path"
               /\ Len(writer.frames) = video.n
               /\ AllFramesSized(video.W, (video.W * 16) \div 9)

IsExample == mode = "keyframes" /\ video.n = 50 /\ param = 24

FirstPassOver == pc = "pass2" \/ result.ret = "output_path"

\* C7 as stated: at interval 24 with 50 frames, frames 0 and 24 are
\* keyframes and the frame written for index 36 is keyframe 24 itself.
C7_Frame36IsKeyframe24 ==
    IsExample =>
        /\ FirstPassOver => {0, 24} \subseteq DOMAIN keyframes
        /\ Len(writer.frames) >= 37 => writer.frames[37] = keyframes[24]

\* x is the mean of a and b rounded to an integer
IsMidpoint(x, a, b) == 2 * x - (a + b) \in {-1, 0, 1}

\* C7 amended: at interval 24 with 50 frames, frames 0, 24 and 48 are the
\* keyframes; the frame written for index 36 is the 50/50 blend of keyframes
\* 24 and 48 (next = 48 < 50 is not clamped); the frame written for index 49
\* has next clamped to 48 and is keyframe 48 itself.
C7_Frame36IsBlend ==
    IsExample =>
        /\ FirstPassOver => DOMAIN keyframes = {0, 24, 48}
        /\ Len(writer.frames) >= 37 =>
               /\ writer.frames[37].w = keyframes[24].w
               /\ Height(writer.frames[37]) = Height(keyframes[24])
               /\ \A r \in 1..Height(keyframes[24]) :
                      IsMidpoint(writer.frames[37].rows[r],
                                 keyframes[24].rows[r], keyframes[48].rows[r])
        /\ Len(writer.frames) >= 50 => writer.frames[50] = keyframes[48]

\* the example run has written all of its 50 frames
C7_Witness ==
    /\ IsExample
    /\ pc = "done"
    /\ result.ret = "output_path"
    /\ Len(writer.frames) = 50

\* C8 as stated: _fallback_extension returns, for every frame, position and
\* positive height h, a frame of exactly W x h, from an edge strip of height
\* min(2 * h, floor(H / 3)).
C8_FallbackNeverFails ==
    last.op = "fallback" =>
        /\ last.ok
        /\ last.img.w = last.frame.w
        /\ Height(last.img) = last.h
        /\ last.edge_height = Min(2 * last.h, Height(last.frame) \div 3)

\* C9 as stated: in both modes a source that cannot be opened and a sink that
\* cannot be opened each end the run with an error, and a run whose source
\* and sink opened and that reached the conversion returns the output path
\* whether or not the conversion worked.  Stated of runs on a video of at
\* least one frame with a positive sample_rate / keyframe_interval.
C9_FatalErrors ==
    (video.n >= 1 /\ param >= 1) =>
        /\ cap = "failed" => result.ret = "raise"
        /\ (writer.status = "failed" /\ pc = "done") => result.ret = "raise"
        /\ (writer.status = "released" /\ pc = "done") =>
               result.ret = "output_path"

\* what analyze_frame_and_extend returns for source frame k of the video
ExtendedFrame(k) ==
    AnalyzeFrameAndExtend(NewExtender, api_token, generator,
                          SourceFrame(video, k), <<"error", "error">>).img

\* C10: in uniform-sampling mode with sample_rate s >= 1 the frame written at
\* position i is the extended frame of source index floor(i / s) * s, read
\* back from its file: frame i itself when s divides i, a copy of the last
\* processed frame otherwise; a run that returns has written every position.
C10_UniformSampling ==
    (mode = "uniform" /\ param >= 1) =>
        /\ \A i \in 0..(Len(writer.frames) - 1) :
               writer.frames[i + 1] =
                   ImRead(SaveFrame(ExtendedFrame((i \div param) * param)))
        /\ (pc = "done" /\ result.ret = "output_path") =>
               Len(writer.frames) = video.n

\* a finished run at sample_rate 2 over 4 frames: positions 1 and 3 are copies
C10_Witness ==
    /\ mode = "uniform"
    /\ param = 2
    /\ pc = "done"
    /\ result.ret = "output_path"
    /\ Len(writer.frames) = 4
    /\ writer.frames[4] = writer.frames[3]
    /\ writer.frames[3] # writer.frames[1]

\* the keyframe indices of a video of n frames at interval k >= 1
Multiples(n, k) == {i \in 0..(n - 1) : i % k = 0}

\* x is a * (1 - num/den) + b * (num/den), rounded to an integer
IsBlend(x, a, b, num, den) ==
    LET exact == a * (den - num) + b * num
    IN  2 * Abs(den * x - exact) <= den

\* frame is the blend of frames a and b with factor num / den
IsBlendedFrame(frame, a, b, num, den) ==
    /\ frame.w = a.w
    /\ Height(frame) = Height(a)
    /\ \A r \in 1..Height(a) :
           IsBlend(frame.rows[r], a.rows[r], b.rows[r], num, den)

\* C11: in keyframe mode with interval k >= 1 the keyframes are exactly the
\* indices i < n with i mod k = 0; a written frame at a keyframe index is
\* that keyframe; a written frame at any other index i has
\* prev = floor(i / k) * k and next = prev + k (prev when prev + k >= n),
\* both of them keyframes, a factor t = (i - prev) / (next - prev) with
\* 0 <= t < 1 (0 when next = prev), and is (1 - t) * keyframe[prev] +
\* t * keyframe[next] rounded per pixel.
C11_InterpolationRule ==
    (mode = "keyframes" /\ param >= 1 /\ FirstPassOver) =>
        /\ DOMAIN keyframes = Multiples(video.n, param)
        /\ \A i \in 0..(Len(writer.frames) - 1) :
               LET prev == (i \div param) * param
                   next == IF prev + param >= video.n
                           THEN prev ELSE prev + param
                   num == IF next = prev THEN 0 ELSE i - prev
                   den == IF next = prev THEN 1 ELSE next - prev
               IN  IF i % param = 0
                   THEN writer.frames[i + 1] = keyframes[i]
                   ELSE /\ prev \in DOMAIN keyframes
                        /\ next \in DOMAIN keyframes
                        /\ 0 <= num /\ num < den
                        /\ IsBlendedFrame(writer.frames[i + 1],
                                          keyframes[prev], keyframes[next],
                                          num, den)

\* a finished run at interval 3 over 4 frames: frames 1 and 2 lie between
\* keyframes 0 and 3 and differ from both and from one another
C11_Witness ==
    /\ mode = "keyframes"
    /\ param = 3
    /\ video.n = 4
    /\ pc = "done"
    /\ result.ret = "output_path"
    /\ Len(writer.frames) = 4
    /\ writer.frames[2] # writer.frames[1]
    /\ writer.frames[3] # writer.frames[2]
    /\ writer.frames[3] # writer.frames[4]

\* C12 as stated: for every frame count and every integer keyframe_interval
\* the two passes of process_video_keyframes raise nothing, and a written
\* frame one of whose neighbour keyframes is missing is the neighbour
\* keyframe that exists.  Stated of runs whose source and sink opened,
\* on videos of at least one frame whose frames are at least 3 rows high.
C12_GracefulDegradation ==
    (/\ mode = "keyframes"
     /\ cap = "released"
     /\ writer.status # "failed"
     /\ video.n >= 1
     /\ video.H >= 3) =>
        /\ result.ret # "raise"
        /\ param # 0 =>
               \A i \in 0..(Len(writer.frames) - 1) :
                   LET prev == PyFloorDiv(i, param) * param
                       next == IF prev + param >= video.n
                               THEN prev ELSE prev + param
                       K == DOMAIN keyframes
                   IN  /\ (i \notin K /\ prev \in K /\ next \notin K) =>
                              writer.frames[i + 1] = keyframes[prev]
                       /\ (i \notin K /\ prev \notin K /\ next \in K) =>
                              writer.frames[i + 1] = keyframes[next]

\* C13 as stated: in the frame analyze_frame_and_extend returns, every canvas
\* row r with top <= r < top + H is source row r - top unmodified, whatever
\* the extension heights; an extension of height <= 0 is a 1-pixel black
\* strip made without generation and without the cache.
C13_CenteredPlacement ==
    (last.op = "analyze" /\ last.ok) =>
        /\ \A r \in 1..Height(last.img) :
               LET src == r - last.geometry.top
               IN  (src >= 1 /\ src <= Height(last.frame)) =>
                       last.img.rows[r] = last.frame.rows[src]
        /\ (last.geometry.top <= 0) =>
               /\ last.reqs[1].via = "degenerate"
               /\ last.reqs[1].img = NewImage(last.frame.w, 1, 0)
        /\ (last.geometry.bottom <= 0) =>
               /\ last.reqs[2].via = "degenerate"
               /\ last.reqs[2].img = NewImage(last.frame.w, 1, 0)
        /\ (last.geometry.top <= 0 /\ last.geometry.bottom <= 0) =>
               cache_misses = 0 /\ cache_hits = 0 /\ extension_cache = <<>>

\* a write of the second pass: video_writer.write is called for frame_idx
WritesFrame == pc = "pass2" /\ frame_idx' = frame_idx + 1

\* C14, one step in keyframe mode: the keyframe table changes only while no
\* write has been made; a write is made only once every keyframe of the
\* video is in the table, it is the write of the index after the one
\* written last (0 first), it adds one frame to an open sink, and the sink
\* changes by writes only.
C14_Step ==
    mode = "keyframes" =>
        /\ keyframes' # keyframes =>
               /\ pc = "pass1"
               /\ writer.frames = <<>>
               /\ writer'.frames = <<>>
        /\ frame_idx' # frame_idx =>
               \/ pc = "pass1" /\ writer'.frames = writer.frames
               \/ WritesFrame
        /\ WritesFrame =>
               /\ param >= 1 => DOMAIN keyframes = Multiples(video.n, param)
               /\ keyframes' = keyframes
               /\ frame_idx < video.n
               /\ writer.status = "open" =>
                      /\ Len(writer.frames) = frame_idx
                      /\ Len(writer'.frames) = frame_idx + 1
                      /\ SubSeq(writer'.frames, 1, frame_idx) = writer.frames
        /\ writer'.frames # writer.frames => WritesFrame

\* C14: in keyframe mode every step is as C14_Step says, and a run that
\* returns has written every index 0 .. n-1.
C14_TwoPassOrdering ==
    /\ [][C14_Step]_vars
    /\ []((mode = "keyframes" /\ result.ret = "output_path") =>
              /\ frame_idx = video.n
              /\ writer.status = "released" => Len(writer.frames) = video.n)

\* the second pass under way at interval 2 over 4 frames: both keyframes
\* are in the table and frames 0, 1, 2 have been written
C14_Witness ==
    /\ mode = "keyframes"
    /\ param = 2
    /\ video.n = 4
    /\ pc = "pass2"
    /\ frame_idx = 3
    /\ DOMAIN keyframes = {0, 2}
    /\ Len(writer.frames) = 3
    /\ writer.frames[1] = keyframes[0]
    /\ writer.frames[3] = keyframes[2]

====
